---- MODULE Spec2Model ----
(***************************************************************************)
(* actix-multipart-extract: the multipart decode engine                    *)
(* (extractor.rs, multipart_to_json / params_insert) and the per-field     *)
(* max_size table generated by the MultipartForm derive (derive/lib.rs).   *)
(*                                                                         *)
(* Representation.  A field name is a sequence of one-character strings,   *)
(* so that replace("[]", "") and ends_with("[]") are computed on the       *)
(* characters.  A chunk is a sequence of byte values (0..255).  A          *)
(* serde_json Value is a record [kind, val]; the bytes array of a file is  *)
(* kept as the sequence of its byte values.  Option<usize> is a record     *)
(* [some, v].                                                              *)
(***************************************************************************)
EXTENDS Integers, Sequences, FiniteSets, TLC

\* ------------------------------------------------------------------ bounds
\* Parts pulled from one multipart stream.
MaxParts == 2
\* Chunk pulls (Ok or Err) within one file part.
MaxChunks == 2

\* ------------------------------------------------------------------- names
tags     == <<"t", "a", "g", "s">>
tagsArr  == <<"t", "a", "g", "s", "[", "]">>
avatar   == <<"a", "v">>
avatarArr == <<"a", "v", "[", "]">>
name_    == <<"n">>
aName    == <<"a">>
aArr     == <<"a", "[", "]">>
unknown  == <<"x">>
aArrArr  == <<"a", "[", "]", "[", "]">>
aArrB    == <<"a", "[", "]", "b">>

\* Option<usize>
None == [some |-> FALSE, v |-> 0]
Some(n) == [some |-> TRUE, v |-> n]

\* ------------------------------------------------------ request and response
\* What req.app_data::<MultipartConfig>() finds: nothing, or a MultipartConfig
\* whose error_handler is None (FALSE) or Some(handler) (TRUE).
NoConfig == [registered |-> FALSE, error_handler |-> FALSE]
MultipartConfig(error_handler) == [registered |-> TRUE, error_handler |-> error_handler]
default == MultipartConfig(FALSE)
set_error_handler(self) == [self EXCEPT !.error_handler = TRUE]
Configs == { NoConfig, default, set_error_handler(default) }

\* MultipartError::ParseError around the deserializer's error.
SerdeErrors == { "missing field" }
ParseError(err) == [kind |-> "ParseError", err |-> err]

\* An HttpResponse: status, body and the connection type of its head (unset
\* until someone sets it).
HttpResponse(status, body, connection_type) ==
    [status |-> status, body |-> body, connection_type |-> connection_type]
BadRequest(body) == HttpResponse(400, body, "Unset")

\* What a caller's error handler may answer.
HandlerResponses ==
    { HttpResponse(st, <<"custom">>, ct) :
        st \in {413, 500}, ct \in {"Unset", "KeepAlive", "Close"} }

\* Faulty variant: the text of the InternalError's cause is used as body.
to_string_cause(error) == <<"invalid multipart">>

\* Display of MultipartError (thiserror): the message in its pieces.
to_string(error) ==
    IF error.kind = "ParseError"
    THEN <<"Error while parsing field: ", error.err>>
    ELSE <<"File for field (", error.field, ") was too large (max size: ",
           error.limit, " bytes)">>

set_connection_type(res, ct) == [res EXCEPT !.connection_type = ct]

\* Result<Multipart<T>, actix_web::Error> of from_request; NoOutcome while
\* running.  handler_called records whether the error handler was run.
NoOutcome == [kind |-> "None"]
Extracted == [kind |-> "Ok", handler_called |-> FALSE]
InternalError(cause, res, called) ==
    [kind |-> "Err", cause |-> cause, response |-> res, handler_called |-> called]

\* Faulty variant: only the default response is marked close.
handle_error_default_close(error, cfg, handled) ==
    LET byHandler == cfg.registered /\ cfg.error_handler
        res == IF byHandler THEN handled
               ELSE set_connection_type(BadRequest(to_string(error)), "Close")
    IN  InternalError("invalid multipart", res, byHandler)

\* handle_error; `handled` is what the error handler answers if it is called.
handle_error(error, cfg, handled) ==
    LET byHandler == cfg.registered /\ cfg.error_handler
        res == IF byHandler THEN handled ELSE BadRequest(to_string(error))
    IN  InternalError("invalid multipart", set_connection_type(res, "Close"), byHandler)

\* ------------------------------------------------- record types (derive input)
\* A size literal as written in #[multipart(max_size = 5MB)]: digits + suffix.
Lit(n, unit) == [n |-> n, unit |-> unit]

\* An attribute of a struct field: its path ("multipart", "serde", ...), the
\* name of its first nested name-value ("max_size", "rename", ...) and, for a
\* size, the literal.
Attr(path, key, lit) == [path |-> path, key |-> key, lit |-> lit]
MaxSizeAttr(n, unit) == Attr("multipart", "max_size", Lit(n, unit))
OtherAttr(path, key) == Attr(path, key, Lit(0, ""))

\* A struct field: its identifier, its serde rename (or <<>> for none) and its
\* attributes in source order.
Fld(ident, rename, attrs) == [ident |-> ident, rename |-> rename, attrs |-> attrs]

\* name: String, avatar: File (max_size = 2B), tags: Vec (max_size = 1KiB).
FormPlain ==
    << Fld(name_, <<>>, <<>>),
       Fld(avatar, <<>>, << MaxSizeAttr(2, "B") >>),
       Fld(tags, <<>>, << MaxSizeAttr(1, "KiB") >>) >>

\* The array field is renamed to its wire form, #[serde(rename = "tags[]")];
\* the limited field carries a serde attribute before the multipart one.
FormRenamed ==
    << Fld(<<"l">>, tagsArr, << OtherAttr("serde", "rename") >>),
       Fld(<<"d">>, avatarArr,
           << OtherAttr("serde", "rename"), MaxSizeAttr(3, "") >>) >>

\* Both the plain and the array form of one canonical name are fields.
FormMixed ==
    << Fld(aName, <<>>, << MaxSizeAttr(1, "B") >>),
       Fld(<<"b">>, aArr, << OtherAttr("serde", "rename") >>) >>

\* Renames with the marker twice, and inside the name.
FormNested ==
    << Fld(<<"c">>, aArrArr, << OtherAttr("serde", "rename") >>),
       Fld(<<"e">>, aArrB, << OtherAttr("serde", "rename") >>) >>

\* The record types of the model, by name, and the fields of each.
FormTypes == { "Plain", "Renamed", "Mixed", "Nested" }
FieldsOf(t) ==
    CASE t = "Plain"   -> FormPlain
      [] t = "Renamed" -> FormRenamed
      [] t = "Mixed"   -> FormMixed
      [] t = "Nested"  -> FormNested

\* parse_size's unit table (decimal and binary multiples of a byte).
UnitFactor(unit) ==
    CASE unit = ""    -> 1
      [] unit = "B"   -> 1
      [] unit = "KB"  -> 1000
      [] unit = "KiB" -> 1024
      [] unit = "MB"  -> 1000000
      [] unit = "MiB" -> 1048576

parse_size(lit) == lit.n * UnitFactor(lit.unit)

\* derive/lib.rs 25-75: the closure mapped over the struct's fields.  The
\* attributes are scanned in order; one whose path is not `multipart` is
\* skipped; the first multipart attribute whose first nested item is
\* max_size = <lit> yields Some(parse_size(lit)); no such attribute: None.
RECURSIVE ScanAttrs(_)
ScanAttrs(attrs) ==
    IF attrs = <<>> THEN None
    ELSE IF Head(attrs).path # "multipart" THEN ScanAttrs(Tail(attrs))
    ELSE IF Head(attrs).key = "max_size" THEN Some(parse_size(Head(attrs).lit))
    ELSE ScanAttrs(Tail(attrs))

field_max_sizes(fields) == [i \in 1..Len(fields) |-> ScanAttrs(fields[i].attrs)]

\* Faulty variant: the identifiers, the renames ignored.
introspect_idents(fields) == [i \in 1..Len(fields) |-> fields[i].ident]

\* serde_introspect::<T>(): the serde names of the fields (the rename when
\* there is one, the identifier otherwise), ordered by field.
serde_introspect(fields) ==
    [i \in 1..Len(fields) |->
        IF fields[i].rename # <<>> THEN fields[i].rename ELSE fields[i].ident]

\* introspected.iter().position(|f| f == &field): the first index, or 0.
position(seq, x) ==
    IF \E i \in 1..Len(seq) : seq[i] = x
    THEN CHOOSE i \in 1..Len(seq) : seq[i] = x /\ \A j \in 1..(i - 1) : seq[j] # x
    ELSE 0

\* derive/lib.rs 81-92: the generated MultipartForm::max_size.
max_size_of(fields, field) ==
    LET max_sizes == field_max_sizes(fields)
        introspected == serde_introspect(fields)
        i == position(introspected, field)
    IN  IF i # 0 THEN max_sizes[i] ELSE None

\* ------------------------------------------------------------------ values
Null      == [kind |-> "Null", val |-> 0]
Bool(b)   == [kind |-> "Bool", val |-> b]
Number(n) == [kind |-> "Number", val |-> n]
String(s) == [kind |-> "String", val |-> s]
Array(xs) == [kind |-> "Array", val |-> xs]
Object(o) == [kind |-> "Object", val |-> o]

\* serde_json::Map: Map::new() and Map::insert (insert or overwrite).
EmptyMap == [k \in {} |-> Null]
MapInsert(m, k, v) == [x \in (DOMAIN m) \cup {k} |-> IF x = k THEN v ELSE m[x]]

\* Result<Value, MultipartError> of multipart_to_json; NoResult while running.
NoResult == [kind |-> "None"]
Ok(tree) == [kind |-> "Ok", tree |-> tree]
FileSizeError(field_name, limit) ==
    [kind |-> "FileSizeError", field |-> field_name, limit |-> limit]

\* ------------------------------------------------------------- pure helpers
\* str::replace("[]", ""): every non-overlapping match, left to right.
RECURSIVE replace_brackets(_)
replace_brackets(s) ==
    IF s = <<>> THEN <<>>
    ELSE IF Len(s) >= 2 /\ s[1] = "[" /\ s[2] = "]"
         THEN replace_brackets(SubSeq(s, 3, Len(s)))
         ELSE <<s[1]>> \o replace_brackets(Tail(s))

\* str::ends_with("[]")
ends_with_brackets(s) == Len(s) >= 2 /\ s[Len(s) - 1] = "[" /\ s[Len(s)] = "]"

\* extractor.rs 107: valid_fields.contains(&field_name), on the wire name.
contains(valid_fields, field_name) ==
    \E i \in 1..Len(valid_fields) : valid_fields[i] = field_name

\* std::str::from_utf8 on the bytes of the model: ASCII is valid, 0xFF is not.
from_utf8_ok(bytes) == \A i \in 1..Len(bytes) : bytes[i] < 128

IsDigit(b) == b >= 48 /\ b <= 57

RECURSIVE DigitsValue(_, _)
DigitsValue(acc, ds) ==
    IF ds = <<>> THEN acc ELSE DigitsValue(acc * 10 + (Head(ds) - 48), Tail(ds))

\* Faulty variant: only '-' is taken as a sign.
parse_isize_no_plus(str) ==
    IF str = <<>> THEN [ok |-> FALSE, v |-> 0]
    ELSE LET signed == str[1] = 45
             digits == IF signed THEN Tail(str) ELSE str
         IN  IF digits = <<>> \/ \E i \in 1..Len(digits) : ~IsDigit(digits[i])
             THEN [ok |-> FALSE, v |-> 0]
             ELSE [ok |-> TRUE,
                   v  |-> IF signed THEN 0 - DigitsValue(0, digits)
                                    ELSE DigitsValue(0, digits)]

\* str::parse::<isize>(): empty is an error; a lone sign is an error; one
\* leading '+' (43) or '-' (45) is taken as the sign; every other byte must
\* be a decimal digit.  (The texts of the model are short: no overflow.)
parse_isize(str) ==
    IF str = <<>> THEN [ok |-> FALSE, v |-> 0]
    ELSE LET signed == str[1] = 43 \/ str[1] = 45
             digits == IF signed THEN Tail(str) ELSE str
         IN  IF digits = <<>> \/ \E i \in 1..Len(digits) : ~IsDigit(digits[i])
             THEN [ok |-> FALSE, v |-> 0]
             ELSE [ok |-> TRUE,
                   v  |-> IF str[1] = 45 THEN 0 - DigitsValue(0, digits)
                                         ELSE DigitsValue(0, digits)]

TextTrue  == <<116, 114, 117, 101>>
TextFalse == <<102, 97, 108, 115, 101>>

\* Faulty variant: the boolean literals are not recognised.
coerce_no_bool(str) ==
    LET parsed == parse_isize(str)
    IN  IF parsed.ok THEN Number(parsed.v) ELSE String(str)

\* extractor.rs 172-198: the value a valid-UTF-8 scalar text is inserted as.
coerce(str) ==
    LET parsed == parse_isize(str)
    IN  IF parsed.ok THEN Number(parsed.v)
        ELSE IF str = TextTrue THEN Bool(TRUE)
        ELSE IF str = TextFalse THEN Bool(FALSE)
        ELSE String(str)

\* Faulty variant: a non-array name that is already a key keeps its entry.
params_insert_first_wins(params, field_name, field_name_formatted, element) ==
    IF ends_with_brackets(field_name)
    THEN IF field_name_formatted \in DOMAIN params
         THEN IF params[field_name_formatted].kind = "Array"
              THEN MapInsert(params, field_name_formatted,
                             Array(Append(params[field_name_formatted].val, element)))
              ELSE params
         ELSE MapInsert(params, field_name_formatted, Array(<<element>>))
    ELSE IF field_name \in DOMAIN params THEN params
         ELSE MapInsert(params, field_name, element)

\* Faulty variant: an array insert replaces a non-sequence entry by a new
\* one-element sequence.
params_insert_replace(params, field_name, field_name_formatted, element) ==
    IF ends_with_brackets(field_name)
    THEN IF field_name_formatted \in DOMAIN params
            /\ params[field_name_formatted].kind = "Array"
         THEN MapInsert(params, field_name_formatted,
                        Array(Append(params[field_name_formatted].val, element)))
         ELSE MapInsert(params, field_name_formatted, Array(<<element>>))
    ELSE MapInsert(params, field_name, element)

\* extractor.rs 211-228
params_insert(params, field_name, field_name_formatted, element) ==
    IF ends_with_brackets(field_name)
    THEN IF field_name_formatted \in DOMAIN params
         THEN IF params[field_name_formatted].kind = "Array"
              THEN MapInsert(params, field_name_formatted,
                             Array(Append(params[field_name_formatted].val, element)))
              ELSE params
         ELSE MapInsert(params, field_name_formatted, Array(<<element>>))
    ELSE MapInsert(params, field_name, element)

\* Faulty variant: size = bytes.len(), the running total is lost.
size_add_reset(size, len) == len

\* extractor.rs 121: size += bytes.len()
size_add(size, len) == size + len

\* Faulty variant: size >= max_size.
size_exceeded_ge(size, max_size) == max_size.some /\ size >= max_size.v

\* extractor.rs 122-123: if let Some(max_size) = max_size { if size > max_size
size_exceeded(size, max_size) == max_size.some /\ size > max_size.v

\* Faulty variant: the chunk is put in front of what is buffered.
buffer_prepend(data, bytes) == bytes \o data

\* extractor.rs 131-134: data.push(..) for every byte of the chunk, in order.
buffer(data, bytes) == data \o bytes

\* extractor.rs 143-160: the object built for a file part.
file_value(content_type, filename, data) ==
    Object([content_type |-> content_type, name |-> filename, bytes |-> data])

\* ------------------------------------------------------------------ inputs
NoName == [some |-> FALSE, v |-> <<>>]
SomeName(n) == [some |-> TRUE, v |-> n]
NoFilename == [some |-> FALSE, v |-> ""]
SomeFilename(f) == [some |-> TRUE, v |-> f]

WireNames ==
    { name_, avatar, avatarArr, tags, tagsArr, aName, aArr, unknown, aArrArr, aArrB }
ContentTypes == { "image/png" }
Filenames == { "a.png" }

\* The header of a part: content-disposition name and filename, content type.
Parts ==
    [ name : {NoName} \cup { SomeName(n) : n \in WireNames },
      filename : {NoFilename} \cup { SomeFilename(f) : f \in Filenames },
      content_type : ContentTypes ]

\* Chunks a file part may deliver.
FileChunks == { <<>>, <<7>>, <<8, 9>> }

\* Chunks a scalar part may deliver:
\* "42", "-7", "+5", "true", "false", "", "abc", and the byte 0xFF.
ScalarChunks ==
    { <<52, 50>>, <<45, 55>>, <<43, 53>>, TextTrue, TextFalse, <<>>,
      <<97, 98, 99>>, <<255>> }

\* What an await yielded: try_next() yields a part, the end of the stream or
\* a transport error; field.next() yields a chunk, a chunk error or the end
\* of the part.
NoItem       == [kind |-> "None", bytes |-> <<>>]
ItemPart     == [kind |-> "Part", bytes |-> <<>>]
ItemEnd      == [kind |-> "StreamEnd", bytes |-> <<>>]
ItemErr      == [kind |-> "StreamErr", bytes |-> <<>>]
ChunkOk(b)   == [kind |-> "Chunk", bytes |-> b]
ChunkErr     == [kind |-> "ChunkErr", bytes |-> <<>>]
ChunkNone    == [kind |-> "ChunkEnd", bytes |-> <<>>]

NoField == [name |-> NoName, filename |-> NoFilename, content_type |-> ""]

\* ------------------------------------------------------------------- state
VARIABLES
    form,       \* T: the record type the decode is instantiated with
    pc,         \* where multipart_to_json stands:
                \*   "Streaming" awaiting try_next, "Polled" resumed from it,
                \*   "File" awaiting a file chunk, "FileGot" resumed from it,
                \*   "Scalar" awaiting the scalar chunk, "ScalarGot" resumed,
                \*   "Done" returned Ok, "Failed" returned Err
    map,        \* the tree being built
    field,      \* the part of the current loop iteration (NoField outside)
    item,       \* what the last await yielded
    data,       \* file path: bytes buffered
    size,       \* file path: running total
    max_size,   \* file path: T::max_size(field_name)
    result,     \* what multipart_to_json returned
    sent,       \* history: chunks and chunk errors the current part delivered
    nparts,     \* history: parts pulled from the multipart stream
    config,     \* from_request: req.app_data::<MultipartConfig>()
    outcome     \* from_request: what the extractor's future resolved to

vars == <<form, pc, map, field, item, data, size, max_size, result, sent, nparts,
          config, outcome>>

\* The fields of T.
struct == FieldsOf(form)

valid_fields == serde_introspect(struct)
field_name == field.name.v
field_name_formatted == replace_brackets(field.name.v)

\* multipart_to_json is entered with an empty tree.
DecodeInit ==
    /\ form \in FormTypes
    /\ pc = "Streaming"
    /\ map = EmptyMap
    /\ field = NoField
    /\ item = NoItem
    /\ data = <<>>
    /\ size = 0
    /\ max_size = None
    /\ result = NoResult
    /\ sent = <<>>
    /\ nparts = 0

\* multipart_to_json on its own: no request around it.
Init ==
    /\ DecodeInit
    /\ config = NoConfig
    /\ outcome = NoOutcome

\* The loop iteration ends (continue, or the end of the body): its locals go.
EndIteration ==
    /\ pc' = "Streaming"
    /\ field' = NoField
    /\ item' = NoItem
    /\ data' = <<>>
    /\ size' = 0
    /\ max_size' = None
    /\ sent' = <<>>

\* extractor.rs 96: multipart.try_next().await yields Ok(Some(field)).
TryNextPart(p) ==
    /\ pc = "Streaming"
    /\ nparts < MaxParts
    /\ pc' = "Polled"
    /\ field' = p
    /\ item' = ItemPart
    /\ nparts' = nparts + 1
    /\ UNCHANGED <<form, config, outcome, map, data, size, max_size, result, sent>>

\* extractor.rs 96: try_next().await yields Ok(None) or Err(_).
TryNextStop(it) ==
    /\ pc = "Streaming"
    /\ pc' = "Polled"
    /\ item' = it
    /\ UNCHANGED <<form, config, outcome, map, field, data, size, max_size, result, sent, nparts>>

\* extractor.rs 99-102: no name in the content disposition.
SkipNoName ==
    /\ pc = "Polled" /\ item = ItemPart
    /\ ~field.name.some
    /\ EndIteration
    /\ UNCHANGED <<form, config, outcome, map, result, nparts>>

\* extractor.rs 107-109: the name is not one of the form's fields.
SkipUnknown ==
    /\ pc = "Polled" /\ item = ItemPart
    /\ field.name.some
    /\ ~contains(valid_fields, field_name)
    /\ EndIteration
    /\ UNCHANGED <<form, config, outcome, map, result, nparts>>

\* extractor.rs 111-118: a file part; its first chunk is awaited.
BeginFile ==
    /\ pc = "Polled" /\ item = ItemPart
    /\ field.name.some
    /\ contains(valid_fields, field_name)
    /\ field.filename.some
    /\ pc' = "File"
    /\ data' = <<>>
    /\ max_size' = max_size_of(struct, field_name)
    /\ size' = 0
    /\ UNCHANGED <<form, config, outcome, map, field, item, result, sent, nparts>>

\* extractor.rs 168: a part without filename; its first chunk is awaited.
BeginScalar ==
    /\ pc = "Polled" /\ item = ItemPart
    /\ field.name.some
    /\ contains(valid_fields, field_name)
    /\ ~field.filename.some
    /\ pc' = "Scalar"
    /\ UNCHANGED <<form, config, outcome, map, field, item, data, size, max_size, result, sent, nparts>>

\* extractor.rs 96, 207: Ok(None): the loop ends, Ok(Value::Object(map)).
StreamEnd ==
    /\ pc = "Polled" /\ item = ItemEnd
    /\ pc' = "Done"
    /\ result' = Ok(map)
    /\ UNCHANGED <<form, config, outcome, map, field, item, data, size, max_size, sent, nparts>>

\* Faulty variant: the transport error is propagated as the decode's error.
StreamErr_fail ==
    /\ pc = "Polled" /\ item = ItemErr
    /\ pc' = "Failed"
    /\ result' = [kind |-> "ParseError"]
    /\ UNCHANGED <<form, config, outcome, map, field, item, data, size, max_size, sent, nparts>>

\* extractor.rs 96, 207: Err(_): `while let Ok(Some(..))` does not match and
\* the loop ends the same way.
StreamErr ==
    /\ pc = "Polled" /\ item = ItemErr
    /\ pc' = "Done"
    /\ result' = Ok(map)
    /\ UNCHANGED <<form, config, outcome, map, field, item, data, size, max_size, sent, nparts>>

\* extractor.rs 118: field.next().await in the file loop yields a chunk or a
\* chunk error ...
FileNext(it) ==
    /\ pc = "File"
    /\ Len(sent) < MaxChunks
    /\ pc' = "FileGot"
    /\ item' = it
    /\ sent' = Append(sent, it)
    /\ UNCHANGED <<form, config, outcome, map, field, data, size, max_size, result, nparts>>

\* ... or None.
FileNextNone ==
    /\ pc = "File"
    /\ pc' = "FileGot"
    /\ item' = ChunkNone
    /\ UNCHANGED <<form, config, outcome, map, field, data, size, max_size, result, sent, nparts>>

\* Faulty variant: the error is noted but the chunk loop goes on.
FileChunk_continue ==
    /\ pc = "FileGot" /\ item.kind = "Chunk"
    /\ IF size_exceeded(size_add(size, Len(item.bytes)), max_size)
       THEN /\ result' = FileSizeError(field_name, max_size.v)
            /\ UNCHANGED <<data, size>>
       ELSE /\ size' = size_add(size, Len(item.bytes))
            /\ data' = buffer(data, item.bytes)
            /\ UNCHANGED result
    /\ pc' = "File"
    /\ UNCHANGED <<form, config, outcome, map, field, item, max_size, sent, nparts>>

\* extractor.rs 120-135: Ok(bytes): count, check the limit, buffer.
FileChunk ==
    /\ pc = "FileGot" /\ item.kind = "Chunk"
    /\ IF size_exceeded(size_add(size, Len(item.bytes)), max_size)
       THEN /\ pc' = "Failed"
            /\ result' = FileSizeError(field_name, max_size.v)
            /\ UNCHANGED <<data, size>>
       ELSE /\ pc' = "File"
            /\ size' = size_add(size, Len(item.bytes))
            /\ data' = buffer(data, item.bytes)
            /\ UNCHANGED result
    /\ UNCHANGED <<form, config, outcome, map, field, item, max_size, sent, nparts>>

\* extractor.rs 136-139: Err(_): Null is inserted under the formatted name
\* and `continue` resumes the chunk loop.
FileChunkErr ==
    /\ pc = "FileGot" /\ item.kind = "ChunkErr"
    /\ map' = MapInsert(map, field_name_formatted, Null)
    /\ pc' = "File"
    /\ UNCHANGED <<form, config, outcome, field, item, data, size, max_size, result, sent, nparts>>

\* extractor.rs 141-167: None: the file object is built and inserted.
FileEnd ==
    /\ pc = "FileGot" /\ item.kind = "ChunkEnd"
    /\ map' = params_insert(map, field_name, field_name_formatted,
                            file_value(field.content_type, field.filename.v, data))
    /\ EndIteration
    /\ UNCHANGED <<form, config, outcome, result, nparts>>

\* extractor.rs 168: the single field.next().await of the scalar path.
ScalarNext(it) ==
    /\ pc = "Scalar"
    /\ pc' = "ScalarGot"
    /\ item' = it
    /\ sent' = IF it = ChunkNone THEN sent ELSE Append(sent, it)
    /\ UNCHANGED <<form, config, outcome, map, field, data, size, max_size, result, nparts>>

\* Faulty variant: after the insert the scalar path reads the next chunk.
ScalarChunk_loop ==
    /\ pc = "ScalarGot" /\ item.kind = "Chunk"
    /\ map' = IF from_utf8_ok(item.bytes)
              THEN params_insert(map, field_name, field_name_formatted,
                                 coerce(item.bytes))
              ELSE map
    /\ pc' = IF Len(sent) < MaxChunks THEN "Scalar" ELSE "Streaming"
    /\ IF Len(sent) < MaxChunks
       THEN UNCHANGED <<field, item, data, size, max_size, sent>>
       ELSE EndIteration
    /\ UNCHANGED <<form, config, outcome, result, nparts>>

\* Faulty variant: the scalar chunk is held against the field's limit.
ScalarChunk_guarded ==
    /\ pc = "ScalarGot" /\ item.kind = "Chunk"
    /\ IF size_exceeded(Len(item.bytes), max_size_of(struct, field_name))
       THEN /\ pc' = "Failed"
            /\ result' = FileSizeError(field_name, max_size_of(struct, field_name).v)
            /\ UNCHANGED <<map, field, item, data, size, max_size, sent>>
       ELSE /\ map' = IF from_utf8_ok(item.bytes)
                      THEN params_insert(map, field_name, field_name_formatted,
                                         coerce(item.bytes))
                      ELSE map
            /\ EndIteration
            /\ UNCHANGED result
    /\ UNCHANGED <<form, config, outcome, nparts>>

\* extractor.rs 168-200: Some(Ok(value)): valid UTF-8 is coerced and
\* inserted; anything else inserts nothing.
ScalarChunk ==
    /\ pc = "ScalarGot" /\ item.kind = "Chunk"
    /\ map' = IF from_utf8_ok(item.bytes)
              THEN params_insert(map, field_name, field_name_formatted,
                                 coerce(item.bytes))
              ELSE map
    /\ EndIteration
    /\ UNCHANGED <<form, config, outcome, result, nparts>>

\* extractor.rs 201-204: None or Some(Err(_)): Null.
ScalarNothing ==
    /\ pc = "ScalarGot" /\ item.kind \in {"ChunkEnd", "ChunkErr"}
    /\ map' = params_insert(map, field_name, field_name_formatted, Null)
    /\ EndIteration
    /\ UNCHANGED <<form, config, outcome, result, nparts>>

Next ==
    \/ \E p \in Parts : TryNextPart(p)
    \/ \E it \in {ItemEnd, ItemErr} : TryNextStop(it)
    \/ SkipNoName
    \/ SkipUnknown
    \/ BeginFile
    \/ BeginScalar
    \/ StreamEnd
    \/ StreamErr
    \/ \E it \in { ChunkOk(b) : b \in FileChunks } \cup {ChunkErr} : FileNext(it)
    \/ FileNextNone
    \/ FileChunk
    \/ FileChunkErr
    \/ FileEnd
    \/ \E it \in { ChunkOk(b) : b \in ScalarChunks } \cup {ChunkErr, ChunkNone} : ScalarNext(it)
    \/ ScalarChunk
    \/ ScalarNothing

Spec == Init /\ [][Next]_vars

\* ------------------------------------------------------------- from_request
\* extractor.rs 57: the config is looked up before the decode starts.
ExtractInit ==
    /\ DecodeInit
    /\ config \in Configs
    /\ outcome = NoOutcome

\* extractor.rs 60-61: the tree deserializes into T.
FromValueOk ==
    /\ pc = "Done" /\ outcome = NoOutcome
    /\ outcome' = Extracted
    /\ UNCHANGED <<form, config, pc, map, field, item, data, size, max_size,
                   result, sent, nparts>>

\* extractor.rs 60, 62: the deserializer rejects the tree.
FromValueErr(err, handled) ==
    /\ pc = "Done" /\ outcome = NoOutcome
    /\ outcome' = handle_error(ParseError(err), config, handled)
    /\ UNCHANGED <<form, config, pc, map, field, item, data, size, max_size,
                   result, sent, nparts>>

\* extractor.rs 64: the decode returned an error.
DecodeErr(handled) ==
    /\ pc = "Failed" /\ outcome = NoOutcome
    /\ outcome' = handle_error(result, config, handled)
    /\ UNCHANGED <<form, config, pc, map, field, item, data, size, max_size,
                   result, sent, nparts>>

ExtractNext ==
    \/ Next
    \/ FromValueOk
    \/ \E err \in SerdeErrors, handled \in HandlerResponses : FromValueErr(err, handled)
    \/ \E handled \in HandlerResponses : DecodeErr(handled)

SpecExtract == ExtractInit /\ [][ExtractNext]_vars

\* ============================================================== properties
\* Vocabulary of the specification, defined without the code's operators.

\* The canonical name: one trailing "[]" removed.
SpecCanonical(n) == IF ends_with_brackets(n) THEN SubSeq(n, 1, Len(n) - 2) ELSE n

\* The externally visible name of a struct field.
VisibleName(f) == IF f.rename # <<>> THEN f.rename ELSE f.ident

\* The limit the source declares on a struct field, in bytes.
DeclaredOn(f) ==
    LET idx == { i \in 1..Len(f.attrs) :
                    f.attrs[i].path = "multipart" /\ f.attrs[i].key = "max_size" }
    IN  IF idx = {} THEN None
        ELSE LET i == CHOOSE i \in idx : \A j \in idx : i <= j
             IN  Some(f.attrs[i].lit.n * UnitFactor(f.attrs[i].lit.unit))

\* The limit declared for a visible name; None when no field has that name.
DeclaredLimit(fields, n) ==
    IF \E i \in 1..Len(fields) : VisibleName(fields[i]) = n
    THEN DeclaredOn(fields[CHOOSE i \in 1..Len(fields) : VisibleName(fields[i]) = n])
    ELSE None

RECURSIVE TotalLen(_)
TotalLen(items) ==
    IF items = <<>> THEN 0 ELSE Len(Head(items).bytes) + TotalLen(Tail(items))

RECURSIVE Concat(_)
Concat(items) ==
    IF items = <<>> THEN <<>> ELSE Head(items).bytes \o Concat(Tail(items))

NoErrors(items) == \A i \in 1..Len(items) : items[i].kind = "Chunk"

Front(items) == SubSeq(items, 1, Len(items) - 1)

\* C1: for a file part whose field declares a maximum L, the chunk at which
\* the bytes delivered so far first exceed L ends the decode in Failed with
\* FileSizeError{field: the part's field name, limit: L}; a chunk that brings
\* the total to at most L (L itself included) does not fail.
C1_SizeGuard ==
    [][ ( /\ pc = "FileGot" /\ item.kind = "Chunk"
          /\ field.filename.some
          /\ DeclaredLimit(struct, field_name).some )
        => LET L == DeclaredLimit(struct, field_name).v
           IN  /\ TotalLen(Front(sent)) <= L
               /\ IF TotalLen(sent) > L
                  THEN pc' = "Failed" /\ result' = FileSizeError(field_name, L)
                  ELSE pc' # "Failed" /\ result' = NoResult ]_vars

\* avatar (limit 2): a first chunk of exactly 2 bytes was accepted, the next
\* chunk failed the decode.
C1_Witness ==
    /\ pc = "Failed"
    /\ field_name = avatar
    /\ sent = << ChunkOk(<<8, 9>>), ChunkOk(<<7>>) >>
    /\ result = FileSizeError(avatar, 2)

\* C2: in every state the bytes buffered for a file part whose field declares
\* a maximum never exceed that maximum.
C2_BufferWithinLimit ==
    ( field.name.some /\ field.filename.some /\ DeclaredLimit(struct, field_name).some )
    => Len(data) <= DeclaredLimit(struct, field_name).v

\* avatar (limit 2): one byte buffered, the 2-byte chunk that would cross the
\* limit was delivered and is not in the buffer.
C2_Witness ==
    /\ pc = "Failed"
    /\ field_name = avatar
    /\ sent = << ChunkOk(<<7>>), ChunkOk(<<8, 9>>) >>
    /\ data = <<7>>

\* C3: when a file part of a known field ends after delivering only
\* error-free chunks (within the limit, or with none declared), the decode
\* has not failed and the value inserted into the tree for the part is the
\* File {content_type, name: the filename, bytes: the chunks concatenated in
\* delivery order}.
C3_FileAssembled ==
    [][ ( pc = "FileGot" /\ item = ChunkNone /\ NoErrors(sent) )
        => /\ pc' = "Streaming"
           /\ result' = NoResult
           /\ DeclaredLimit(struct, field_name).some
                => TotalLen(sent) <= DeclaredLimit(struct, field_name).v
           /\ map' = params_insert(map, field_name, field_name_formatted,
                        Object([ content_type |-> field.content_type,
                                 name |-> field.filename.v,
                                 bytes |-> Concat(sent) ])) ]_vars

\* tags holds the file assembled from the chunks <<8, 9>> and <<7>>.
C3_Witness ==
    /\ pc = "Streaming"
    /\ tags \in DOMAIN map
    /\ map[tags] = Object([ content_type |-> "image/png", name |-> "a.png",
                            bytes |-> <<8, 9, 7>> ])

\* C4: Failed is terminal: no step is taken once the decode has returned, a
\* size violation always ends in Failed, and what Failed returns is the
\* error alone (field and limit, no tree).
C4_FailedTerminal ==
    [][ /\ pc # "Failed"
        /\ result.kind # "FileSizeError"
        /\ result'.kind = "FileSizeError"
             => pc' = "Failed" /\ DOMAIN result' = {"kind", "field", "limit"}
        /\ pc' = "Failed" => result'.kind = "FileSizeError" ]_vars

\* The decode failed while the stream could still deliver chunks and parts.
C4_Witness ==
    /\ pc = "Failed"
    /\ result.kind = "FileSizeError"
    /\ nparts < MaxParts
    /\ Len(sent) < MaxChunks

\* C5: when the canonical name of an array-suffixed wire name is one of the
\* form's fields, every completed part with that wire name adds exactly one
\* element at the end of the sequence under the canonical name (so n parts
\* yield a sequence of n elements in arrival order).
C5_ArrayMerging ==
    [][ ( /\ field.name.some
          /\ ends_with_brackets(field_name)
          /\ contains(valid_fields, SpecCanonical(field_name))
          /\ pc # "Streaming" /\ pc' = "Streaming" )
        => LET k == SpecCanonical(field_name)
               before == IF k \in DOMAIN map /\ map[k].kind = "Array"
                         THEN map[k].val ELSE <<>>
           IN  /\ k \in DOMAIN map'
               /\ map'[k].kind = "Array"
               /\ Len(map'[k].val) = Len(before) + 1
               /\ SubSeq(map'[k].val, 1, Len(before)) = before ]_vars

\* C6: while the current part has a canonical name that is not one of the
\* form's fields, no step changes the tree or fails the decode.
C6_UnknownDropped ==
    [][ ( field.name.some /\ ~contains(valid_fields, SpecCanonical(field_name)) )
        => ( map' = map /\ pc' # "Failed" ) ]_vars

\* C7: every key of the tree is one of the form's field names.
C7_KeysKnown == \A k \in DOMAIN map : contains(valid_fields, k)

\* The values a scalar text may be inserted as.
ScalarCandidates(text) ==
    { Number(n) : n \in -99..99 } \cup { Bool(TRUE), Bool(FALSE), String(text), Null }

\* Decimal digits with an optional leading '-'.
IsDecimal(text) ==
    LET ds == IF text # <<>> /\ text[1] = 45 THEN Tail(text) ELSE text
    IN  ds # <<>> /\ \A i \in 1..Len(ds) : ds[i] >= 48 /\ ds[i] <= 57

RECURSIVE DecimalValue(_)
DecimalValue(ds) ==
    IF ds = <<>> THEN 0 ELSE 10 * DecimalValue(Front(ds)) + (ds[Len(ds)] - 48)

\* What C8 says of the value v a scalar part's first await `it` is turned into.
C8_Expected(it, v) ==
    IF it = ChunkNone THEN v = Null
    ELSE LET text == it.bytes
         IN  /\ v.kind \in {"Number", "Bool", "String"}
             /\ text = <<52, 50>> => v = Number(42)
             /\ text = <<45, 55>> => v = Number(-7)
             /\ IsDecimal(text)
                  => v = Number(IF text[1] = 45 THEN 0 - DecimalValue(Tail(text))
                                                ELSE DecimalValue(text))
             /\ text = TextTrue => v = Bool(TRUE)
             /\ text = TextFalse => v = Bool(FALSE)
             /\ text = <<>> => v = String(<<>>)
             /\ text = <<97, 98, 99>> => v = String(<<97, 98, 99>>)
             /\ v.kind = "Bool" => text \in {TextTrue, TextFalse}
             /\ v.kind = "String" => v.val = text /\ ~IsDecimal(text)

\* C8: the value inserted for a known scalar part is Integer when its text is
\* a decimal integer ("42" -> 42), else Boolean for exactly "true" / "false",
\* else String of the text verbatim ("" and "abc" included); a part that
\* yields no chunk is inserted as Null.
C8_ScalarCoercion ==
    [][ ( /\ pc = "ScalarGot"
          /\ \/ item = ChunkNone
             \/ item.kind = "Chunk" /\ from_utf8_ok(item.bytes) )
        => /\ pc' = "Streaming"
           /\ \E v \in ScalarCandidates(item.bytes) :
                /\ C8_Expected(item, v)
                /\ map' = params_insert(map, field_name, field_name_formatted, v) ]_vars

\* name = "42" was stored as Integer 42 and avatar = "true" as Boolean.
C8_Witness ==
    /\ pc = "Streaming"
    /\ DOMAIN map = {name_, avatar}
    /\ map[name_] = Number(42)
    /\ map[avatar] = Bool(TRUE)

\* Names looked up: every visible name, every identifier, and wire names.
ProbeNames ==
    WireNames \cup { struct[i].ident : i \in 1..Len(struct) }
              \cup { VisibleName(struct[i]) : i \in 1..Len(struct) }

\* The tables and the lookup of T agree with T's declarations.
C9_Tables ==
    /\ Len(field_max_sizes(struct)) = Len(serde_introspect(struct))
    /\ \A i \in 1..Len(struct) :
         /\ serde_introspect(struct)[i] = VisibleName(struct[i])
         /\ field_max_sizes(struct)[i] = DeclaredOn(struct[i])
    /\ \A n \in ProbeNames : max_size_of(struct, n) = DeclaredLimit(struct, n)
    /\ form = "Plain"
         => /\ max_size_of(struct, avatar) = Some(2)
            /\ max_size_of(struct, tags) = Some(1024)
            /\ max_size_of(struct, name_) = None
            /\ max_size_of(struct, unknown) = None
    /\ form = "Renamed"
         => /\ max_size_of(struct, avatarArr) = Some(3)
            /\ max_size_of(struct, tagsArr) = None
            /\ max_size_of(struct, <<"d">>) = None
    /\ form = "Mixed"
         => /\ max_size_of(struct, aName) = Some(1)
            /\ max_size_of(struct, aArr) = None

\* C9: the limit table and the field-name list have the same length and the
\* i-th limit is the one declared on the field with the i-th visible name;
\* max_size(name) is the limit declared on the field whose visible name is
\* `name`, None when it declares none and None when no field has that name;
\* the limit the file path holds is that lookup.  (The tables depend on T
\* alone: they are compared where the decode is entered, for every T.)
C9_MaxSizeLookup ==
    /\ ( pc = "Streaming" /\ nparts = 0 ) => C9_Tables
    /\ pc \in {"File", "FileGot", "Failed"}
         => max_size = DeclaredLimit(struct, field_name)

\* The file path looked up the renamed field av[] and holds its limit.
C9_Witness ==
    /\ pc = "File"
    /\ form = "Renamed"
    /\ field_name = avatarArr
    /\ max_size = Some(3)

\* C10: a transport error from try_next ends the decode in Done with the
\* tree accumulated so far, unchanged, never in Failed.
C10_StreamErrIsEnd ==
    [][ ( pc = "Polled" /\ item = ItemErr )
        => ( pc' = "Done" /\ result' = Ok(map) /\ map' = map ) ]_vars

\* The decode is Done after a transport error and returned a non-empty tree.
C10_Witness ==
    /\ pc = "Done"
    /\ item = ItemErr
    /\ result.kind = "Ok"
    /\ DOMAIN result.tree # {}

\* The tree holds Null for an occurrence of the wire name: as the entry under
\* its canonical name, or as the last element of the sequence there.
HoldsNull(m, wire) ==
    LET k == SpecCanonical(wire)
    IN  /\ k \in DOMAIN m
        /\ \/ m[k] = Null
           \/ m[k].kind = "Array" /\ m[k].val # <<>> /\ m[k].val[Len(m[k].val)] = Null

\* C11: when a chunk of a file part of a known field was a transport error,
\* the processing of that part ends with the decode not failed, going on to
\* the next part, and with Null in the tree for this occurrence.
C11_ChunkErrorNull ==
    [][ ( /\ pc \in {"File", "FileGot"}
          /\ \E i \in 1..Len(sent) : sent[i].kind = "ChunkErr"
          /\ pc' \notin {"File", "FileGot"} )
        => ( pc' = "Streaming" /\ HoldsNull(map', field_name) ) ]_vars

\* C12: a known scalar part whose first chunk is not valid UTF-8 is recorded
\* as Null and the decode goes on to the next part.
C12_InvalidTextNull ==
    [][ ( pc = "ScalarGot" /\ item.kind = "Chunk" /\ ~from_utf8_ok(item.bytes) )
        => ( pc' = "Streaming" /\ HoldsNull(map', field_name) ) ]_vars

\* C13: every failed extraction, after a FileSizeError or a ParseError and
\* whether answered by the default mapping or by the caller's handler,
\* carries a response whose connection is marked close.
C13_FailureCloses ==
    outcome.kind = "Err" => outcome.response.connection_type = "Close"

C13_Witness ==
    /\ outcome.kind = "Err"
    /\ outcome.handler_called
    /\ result.kind = "FileSizeError"

\* The textual descriptions a failed extraction's error can have.
Descriptions ==
    IF result.kind = "FileSizeError"
    THEN { <<"File for field (", result.field, ") was too large (max size: ",
             result.limit, " bytes)">> }
    ELSE { <<"Error while parsing field: ", e>> : e \in SerdeErrors }

\* C14: a failed extraction is answered by the caller's handler when a
\* MultipartConfig with a handler is registered, and otherwise (no config, or
\* a config without handler) by 400 Bad Request whose body is the error's
\* description; a successful extraction never runs the handler.
C14_HandlerOrBadRequest ==
    /\ outcome.kind = "Ok" => ( ~outcome.handler_called /\ result.kind = "Ok" )
    /\ outcome.kind = "Err" =>
         IF config.registered /\ config.error_handler
         THEN /\ outcome.handler_called
              /\ \E h \in HandlerResponses :
                    /\ outcome.response.status = h.status
                    /\ outcome.response.body = h.body
         ELSE /\ ~outcome.handler_called
              /\ outcome.response.status = 400
              /\ outcome.response.body \in Descriptions

C14_Witness ==
    /\ outcome.kind = "Err"
    /\ config = default
    /\ result.kind = "Ok"
    /\ outcome.response.status = 400

\* m2 is m1 with the entry under k set to v and nothing else touched.
SetsOnly(m1, m2, k, v) ==
    /\ DOMAIN m2 = DOMAIN m1 \cup {k}
    /\ m2[k] = v
    /\ \A x \in DOMAIN m1 \ {k} : m2[x] = m1[x]

\* C15: when a part with a known non-array wire name completes with a value
\* (a file of error-free chunks, a scalar text, or Null for no chunk), the
\* tree entry under that name becomes that value itself, not a sequence,
\* whatever an earlier part with the same name had put there; no other entry
\* changes.  So of several such parts the last one's value is the entry.
C15_LastWins ==
    [][ ( /\ pc \in {"FileGot", "ScalarGot"}
          /\ pc' = "Streaming"
          /\ ~ends_with_brackets(field_name)
          /\ \/ pc = "FileGot" /\ NoErrors(sent)
             \/ pc = "ScalarGot" /\ item.kind \in {"ChunkEnd", "ChunkErr"}
             \/ pc = "ScalarGot" /\ item.kind = "Chunk" /\ from_utf8_ok(item.bytes) )
        => \E v \in ScalarCandidates(item.bytes)
                      \cup { Object([ content_type |-> field.content_type,
                                      name |-> field.filename.v,
                                      bytes |-> Concat(sent) ]) } :
             /\ v.kind # "Array"
             /\ pc = "FileGot" => v.kind = "Object"
             /\ pc = "ScalarGot" /\ item.kind = "ChunkErr" => v = Null
             /\ pc = "ScalarGot" /\ item.kind # "ChunkErr" => C8_Expected(item, v)
             /\ SetsOnly(map, map', field_name, v) ]_vars

\* n already holds Boolean true from an earlier part and a second part named
\* n has delivered the text "42", about to replace it.
C15_Witness ==
    /\ pc = "ScalarGot"
    /\ field_name = name_
    /\ name_ \in DOMAIN map
    /\ map[name_] = Bool(TRUE)
    /\ item = ChunkOk(<<52, 50>>)

\* C16: when a part with an array-suffixed wire name completes while the
\* canonical name already holds an entry that is not a sequence, the tree
\* stays as it is and the decode goes on without error.
C16_ArrayOntoScalar ==
    [][ ( /\ pc \in {"FileGot", "ScalarGot"}
          /\ pc' = "Streaming"
          /\ ends_with_brackets(field_name)
          /\ SpecCanonical(field_name) \in DOMAIN map
          /\ map[SpecCanonical(field_name)].kind # "Array" )
        => ( map' = map /\ result' = NoResult ) ]_vars

\* a holds Integer 42 and a part named a[] has delivered the text abc.
C16_Witness ==
    /\ pc = "ScalarGot"
    /\ form = "Mixed"
    /\ field_name = aArr
    /\ aName \in DOMAIN map
    /\ map[aName] = Number(42)
    /\ item = ChunkOk(<<97, 98, 99>>)

\* C17: the scalar path reads a part once: the step after the read ends the
\* part's processing, whatever the read yielded, so at most one chunk is ever
\* taken from a scalar part and the tree is written with nothing but that
\* first chunk delivered.
C17_SingleRead ==
    [][ /\ pc = "Scalar" => ( sent = <<>> /\ pc' = "ScalarGot" /\ map' = map )
        /\ pc = "ScalarGot"
             => /\ Len(sent) <= 1
                /\ sent # <<>> => sent[1] = item
                /\ pc' = "Streaming"
                /\ sent' = <<>> ]_vars

\* A scalar part's only read has delivered a chunk while the stream could
\* still deliver more.
C17_Witness ==
    /\ pc = "ScalarGot"
    /\ sent = << ChunkOk(<<52, 50>>) >>
    /\ Len(sent) < MaxChunks

\* The text "+5".
TextPlus5 == <<43, 53>>

\* C18: a scalar part whose text is "+5" is not coerced to Integer: the
\* String "+5" is inserted, verbatim.
C18_PlusStaysString ==
    [][ ( pc = "ScalarGot" /\ item = ChunkOk(TextPlus5) )
        => map' = params_insert(map, field_name, field_name_formatted,
                                String(TextPlus5)) ]_vars

\* One sign, '+' or '-', followed by decimal digits only.
IsSignedDecimal(text) ==
    /\ Len(text) >= 2
    /\ text[1] \in {43, 45}
    /\ \A i \in 2..Len(text) : text[i] >= 48 /\ text[i] <= 57

\* C18 (amended): a scalar text made of one leading '+' or '-' and decimal
\* digits is inserted as Integer: the digits' value after '+', its negation
\* after '-'; "+5" is inserted as Integer 5.
C18_SignAccepted ==
    [][ ( pc = "ScalarGot" /\ item.kind = "Chunk" /\ IsSignedDecimal(item.bytes) )
        => LET n == DecimalValue(Tail(item.bytes))
               v == Number(IF item.bytes[1] = 45 THEN 0 - n ELSE n)
           IN  /\ item.bytes = TextPlus5 => v = Number(5)
               /\ pc' = "Streaming"
               /\ map' = params_insert(map, field_name, field_name_formatted, v) ]_vars

\* n = "+5" was stored as Integer 5.
C18_Witness ==
    /\ pc = "Streaming"
    /\ name_ \in DOMAIN map
    /\ map[name_] = Number(5)

\* C19: the key under which a part's value enters the tree is the wire name
\* with one trailing "[]" removed and nothing else changed: a[][] is keyed
\* a[], a[]b is keyed a[]b.
C19_CanonicalKey ==
    [][ field.name.some
        => \A k \in DOMAIN map' \ DOMAIN map : k = SpecCanonical(field_name) ]_vars

\* C20: no step of a part without filename fails the decode, however long
\* its chunk and even when its field declares a maximum; FileSizeError is
\* returned only during a part that has a filename and whose field declares
\* a limit.
C20_OnlyFilesGuarded ==
    [][ /\ ( field.name.some /\ ~field.filename.some )
            => ( pc' # "Failed" /\ result' = NoResult )
        /\ ( result.kind # "FileSizeError" /\ result'.kind = "FileSizeError" )
            => /\ field.name.some /\ field.filename.some
               /\ DeclaredLimit(struct, field_name).some
               /\ result'.field = field_name ]_vars

\* avatar declares 2 bytes; a scalar part named avatar delivered the 5 bytes
\* of "false" and they were stored.
C20_Witness ==
    /\ pc = "Streaming"
    /\ form = "Plain"
    /\ avatar \in DOMAIN map
    /\ map[avatar] = Bool(FALSE)
    /\ DeclaredLimit(struct, avatar) = Some(2)

====
